---------------------------- MODULE Spec2Model ----------------------------
(***************************************************************************)
(* A model of index.py: the Nanonis .sxm decoder (NanonisFile, Scan,       *)
(* _parse_sxm_header, _parse_scan_header_table) and the .asc writer        *)
(* (print_to_asc, process).                                                *)
(*                                                                         *)
(* A file is a sequence of bytes (0..255).  Text is the sequence of its    *)
(* ASCII codes, so that readline, strip, split, lower, decode and the      *)
(* numeric conversions are computed on the bytes, as the interpreter does. *)
(* The program is a Python 2 program (process indexes dict.keys() at line *)
(* 390, which only Python 2 allows): str is the byte string, readline() at *)
(* end of file returns '' which equals the literal '' of line 110, decode()*)
(* is the ASCII codec, and a dict iterates in an order of its own.         *)
(***************************************************************************)
EXTENDS Integers, Sequences, FiniteSets, TLC

(***************************************************************************)
(* Characters and byte strings                                             *)
(***************************************************************************)
Code ==
  ("A" :> 65) @@ ("B" :> 66) @@ ("C" :> 67) @@ ("D" :> 68) @@ ("E" :> 69) @@
  ("F" :> 70) @@ ("G" :> 71) @@ ("H" :> 72) @@ ("I" :> 73) @@ ("J" :> 74) @@
  ("K" :> 75) @@ ("L" :> 76) @@ ("M" :> 77) @@ ("N" :> 78) @@ ("O" :> 79) @@
  ("P" :> 80) @@ ("Q" :> 81) @@ ("R" :> 82) @@ ("S" :> 83) @@ ("T" :> 84) @@
  ("U" :> 85) @@ ("V" :> 86) @@ ("W" :> 87) @@ ("X" :> 88) @@ ("Y" :> 89) @@
  ("Z" :> 90) @@
  ("a" :> 97) @@ ("b" :> 98) @@ ("c" :> 99) @@ ("d" :> 100) @@ ("e" :> 101) @@
  ("f" :> 102) @@ ("g" :> 103) @@ ("h" :> 104) @@ ("i" :> 105) @@ ("j" :> 106) @@
  ("k" :> 107) @@ ("l" :> 108) @@ ("m" :> 109) @@ ("n" :> 110) @@ ("o" :> 111) @@
  ("p" :> 112) @@ ("q" :> 113) @@ ("r" :> 114) @@ ("s" :> 115) @@ ("t" :> 116) @@
  ("u" :> 117) @@ ("v" :> 118) @@ ("w" :> 119) @@ ("x" :> 120) @@ ("y" :> 121) @@
  ("z" :> 122) @@
  ("0" :> 48) @@ ("1" :> 49) @@ ("2" :> 50) @@ ("3" :> 51) @@ ("4" :> 52) @@
  ("5" :> 53) @@ ("6" :> 54) @@ ("7" :> 55) @@ ("8" :> 56) @@ ("9" :> 57) @@
  ("\t" :> 9) @@ ("\n" :> 10) @@ (" " :> 32) @@ ("+" :> 43) @@ ("-" :> 45) @@
  ("." :> 46) @@ (":" :> 58) @@ ("[" :> 91) @@ ("]" :> 93) @@ ("_" :> 95)

\* The byte string of a tuple of characters.
B(chars) == [i \in 1..Len(chars) |-> Code[chars[i]]]

NL    == Code["\n"]
TAB   == Code["\t"]
COLON == Code[":"]

\* bytes.strip() strips these; unicode.strip() and unicode.split() also 28..31.
BytesWhitespace   == {9, 10, 11, 12, 13, 32}
UnicodeWhitespace == BytesWhitespace \cup (28..31)

Digits == 48..57

Min(a, b) == IF a < b THEN a ELSE b
Max(a, b) == IF a < b THEN b ELSE a

\* s[a..b] on 1-based inclusive indexes, empty when a > b.
Slice(s, a, b) == IF a > b THEN << >> ELSE SubSeq(s, a, b)

\* s.startswith(p)
StartsWith(s, p) == Len(s) >= Len(p) /\ SubSeq(s, 1, Len(p)) = p

\* p in s (substring)
Contains(s, p) ==
  \E i \in 0..(Len(s) - Len(p)) : Slice(s, i + 1, i + Len(p)) = p

\* s.strip(chars): the longest slice that neither starts nor ends in chars.
StripSet(s, chars) ==
  LET keep  == {i \in 1..Len(s) : s[i] \notin chars}
      first == CHOOSE i \in keep : \A j \in keep : i <= j
      last  == CHOOSE i \in keep : \A j \in keep : j <= i
  IN  IF keep = {} THEN << >> ELSE SubSeq(s, first, last)

\* s.split(sep) for a one-character separator: always at least one field.
SplitOn(s, sep) ==
  LET cuts == {i \in 1..Len(s) : s[i] = sep}
      n    == Cardinality(cuts)
      \* the k-th separator position; 0 before the first, Len(s)+1 after the last
      cut(k) == IF k = 0 THEN 0
                ELSE IF k = n + 1 THEN Len(s) + 1
                ELSE CHOOSE i \in cuts : Cardinality({j \in cuts : j < i}) = k - 1
  IN  [k \in 1..(n + 1) |-> Slice(s, cut(k - 1) + 1, cut(k) - 1)]

\* s.split() with no argument: the maximal runs of non-whitespace.
SplitWhitespace(s) ==
  LET starts == {i \in 1..Len(s) :
                   /\ s[i] \notin UnicodeWhitespace
                   /\ (i = 1 \/ s[i - 1] \in UnicodeWhitespace)}
      n      == Cardinality(starts)
      start(k) == CHOOSE i \in starts : Cardinality({j \in starts : j < i}) = k - 1
      stop(i)  == CHOOSE e \in i..Len(s) :
                    /\ \A j \in i..e : s[j] \notin UnicodeWhitespace
                    /\ (e = Len(s) \/ s[e + 1] \in UnicodeWhitespace)
  IN  [k \in 1..n |-> SubSeq(s, start(k), stop(start(k)))]

\* s.lower() on ASCII text.
Lower(s) == [i \in 1..Len(s) |-> IF s[i] \in 65..90 THEN s[i] + 32 ELSE s[i]]

\* bytes.decode() under the ASCII codec: defined exactly when every byte is
\* below 128; the text then has the same codes.
\* line.decode() with Python 2's default codec, ascii: it raises
\* UnicodeDecodeError on a byte above 127.
Decodable(s) == \A i \in 1..Len(s) : s[i] < 128


(***************************************************************************)
(* Numeric conversions (np.float, np.asarray(..., dtype=np.float/np.int))  *)
(***************************************************************************)
RECURSIVE DigitsValue(_)
\* The number a string of decimal digits denotes (0 for the empty string).
DigitsValue(d) ==
  IF d = << >> THEN 0
  ELSE 10 * DigitsValue(SubSeq(d, 1, Len(d) - 1)) + (d[Len(d)] - 48)

AllDigits(d) == \A i \in 1..Len(d) : d[i] \in Digits

Signs == {Code["+"], Code["-"]}

\* An optional sign taken off the front: <<sign, rest>>.
Unsigned(t) ==
  IF t # << >> /\ t[1] \in Signs
  THEN <<IF t[1] = Code["-"] THEN -1 ELSE 1, Slice(t, 2, Len(t))>>
  ELSE <<1, t>>

\* int(text): surrounding whitespace, an optional sign, one or more digits.
IsIntText(s) ==
  LET u == Unsigned(StripSet(s, UnicodeWhitespace))
  IN  u[2] # << >> /\ AllDigits(u[2])

IntValue(s) ==
  LET u == Unsigned(StripSet(s, UnicodeWhitespace))
  IN  u[1] * DigitsValue(u[2])

\* float(text) on decimal numerals, read one character at a time: blanks,
\* a sign, digits with at most one point and at least one digit, an optional
\* exponent e[sign]digits, blanks.  (The words inf and nan, which float() also
\* takes, are not header values here.)  FloatStep is the state after c.
FloatStep(st, c) ==
  CASE st = "start" /\ c \in UnicodeWhitespace                 -> "start"
    [] st = "start" /\ c \in Signs                             -> "sign"
    [] st \in {"start", "sign", "int"} /\ c \in Digits         -> "int"
    [] st \in {"start", "sign"} /\ c = Code["."]               -> "point"
    [] st = "int" /\ c = Code["."]                             -> "frac"
    [] st \in {"point", "frac"} /\ c \in Digits                -> "frac"
    [] st \in {"int", "frac"} /\ c \in {Code["e"], Code["E"]}  -> "e"
    [] st = "e" /\ c \in Signs                                 -> "esign"
    [] st \in {"e", "esign", "exp"} /\ c \in Digits            -> "exp"
    [] st \in {"int", "frac", "exp", "end"} /\ c \in UnicodeWhitespace -> "end"
    [] OTHER                                                   -> "bad"

RECURSIVE FloatState(_, _, _)
FloatState(s, k, st) ==
  IF k > Len(s) THEN st ELSE FloatState(s, k + 1, FloatStep(st, s[k]))

IsFloatText(s) == FloatState(s, 1, "start") \in {"int", "frac", "exp", "end"}

\* Where the exponent of a numeral starts: its e, or past its end.
ExponentAt(s) ==
  IF \E k \in 1..Len(s) : s[k] \in {Code["e"], Code["E"]}
  THEN CHOOSE k \in 1..Len(s) : s[k] \in {Code["e"], Code["E"]}
  ELSE Len(s) + 1

IsDigit(c) == c \in Digits

\* The digits of s[a..b] as a number, negated where a minus sign is among them.
SignedDigits(s, a, b) ==
  (IF \E k \in a..b : s[k] = Code["-"] THEN -1 ELSE 1)
    * DigitsValue(SelectSeq(Slice(s, a, b), IsDigit))

\* The digits after the point of the mantissa.
FractionLength(s) ==
  Cardinality({k \in 1..(ExponentAt(s) - 1) :
                 s[k] \in Digits /\ \E p \in 1..(k - 1) : s[p] = Code["."]})

\* The value as mantissa * 10^exp10.
FloatValue(s) ==
  [mantissa |-> SignedDigits(s, 1, ExponentAt(s) - 1),
   exp10    |-> SignedDigits(s, ExponentAt(s) + 1, Len(s)) - FractionLength(s)]

(***************************************************************************)
(* Header values and errors                                                *)
(***************************************************************************)
StrVal(s)    == [kind |-> "str",    v |-> s]
ListVal(l)   == [kind |-> "list",   v |-> l]
FloatVal(x)  == [kind |-> "float",  v |-> x]
FloatsVal(l) == [kind |-> "floats", v |-> l]
IntsVal(l)   == [kind |-> "ints",   v |-> l]
TableVal(t)  == [kind |-> "table",  v |-> t]

\* An exception: its type, the function that raises it, what it is about.
Raise(type, where, what) == [type |-> type, where |-> where, what |-> what]
NoError == Raise("none", "", << >>)

Ok(value)   == [ok |-> TRUE,  value |-> value, err |-> NoError]
Fail(error) == [ok |-> FALSE, value |-> << >>, err |-> error]

\* d[key] = value on a dict held as a function
Put(d, key, value) == (key :> value) @@ d

(***************************************************************************)
(* _parse_scan_header_table                                                *)
(***************************************************************************)
\* row.strip('\t').split('\t')
TableRow(row) == SplitOn(StripSet(row, {TAB}), TAB)

\* zip(*values): one tuple per column, as many as the shortest row has.
ZipRows(values) ==
  LET width == IF values = << >> THEN 0
               ELSE CHOOSE w \in {Len(values[r]) : r \in 1..Len(values)} :
                      \A r \in 1..Len(values) : w <= Len(values[r])
  IN  [c \in 1..width |-> [r \in 1..Len(values) |-> values[r][c]]]

\* dict(zip(keys, zip_vals)): pairs up to the shorter of the two, a repeated
\* key keeping its last pair.
DictOfPairs(keys, vals) ==
  LET m == Min(Len(keys), Len(vals))
  IN  [k \in {keys[c] : c \in 1..m} |->
         vals[CHOOSE c \in 1..m : keys[c] = k /\ \A e \in 1..m : keys[e] = k => e <= c]]

parse_scan_header_table(table_list) ==
  LET table_processed == [r \in 1..Len(table_list) |-> TableRow(table_list[r])]
  IN  IF table_processed = << >>
      THEN Fail(Raise("IndexError", "_parse_scan_header_table", << >>))
      ELSE Ok(DictOfPairs(table_processed[1],
                          ZipRows(Slice(table_processed, 2, Len(table_processed)))))

(***************************************************************************)
(* _parse_sxm_header                                                       *)
(***************************************************************************)
DATA_INFO    == B(<<":","D","A","T","A","_","I","N","F","O",":">>)
Z_CONTROLLER == B(<<":","Z","-","C","O","N","T","R","O","L","L","E","R",":">>)

scan_offset == B(<<"s","c","a","n","_","o","f","f","s","e","t">>)
scan_pixels == B(<<"s","c","a","n","_","p","i","x","e","l","s">>)
scan_range  == B(<<"s","c","a","n","_","r","a","n","g","e">>)
scan_time   == B(<<"s","c","a","n","_","t","i","m","e">>)
bias        == B(<<"b","i","a","s">>)
acq_time    == B(<<"a","c","q","_","t","i","m","e">>)
data_info   == B(<<"d","a","t","a","_","i","n","f","o">>)

\* Lines 248-261
entries_to_be_split   == <<scan_offset, scan_pixels, scan_range, scan_time>>
entries_to_be_floated == <<scan_offset, scan_range, scan_time, bias, acq_time>>
entries_to_be_inted   == <<scan_pixels>>

\* header_raw.split('\n')[:-3]
HeaderEntries(header_raw) ==
  LET all == SplitOn(header_raw, NL)
  IN  Slice(all, 1, Len(all) - 3)

\* entry.strip(':').lower()
SectionKey(entry) == Lower(StripSet(entry, {COLON}))

\* Lines 265-270: the lines after entry i that the count loop visits, up to
\* the first one that starts with ':' (or the end of the entries).
TableStop(entries, i) ==
  LET colons == {j \in (i + 1)..Len(entries) : StartsWith(entries[j], <<COLON>>)}
  IN  IF colons = {} THEN Len(entries) + 1
      ELSE CHOOSE j \in colons : \A k \in colons : j <= k

\* count: 1 plus the number of visited lines whose first character is a tab.
TableCount(entries, i) ==
  1 + Cardinality({j \in (i + 1)..(TableStop(entries, i) - 1) :
                     entries[j][1] = TAB})

\* header_entries[i+1:i+count]
TableLines(entries, i) == Slice(entries, i + 1, i + TableCount(entries, i) - 1)

\* One pass of the loop body of lines 263-274 on entry i.
ScanEntry(entries, i, header_dict) ==
  LET entry == entries[i]
  IN  IF entry = DATA_INFO \/ entry = Z_CONTROLLER
      THEN IF \E j \in (i + 1)..(TableStop(entries, i) - 1) : entries[j] = << >>
           THEN \* header_entries[j][0] of an empty line
                Fail(Raise("IndexError", "_parse_sxm_header", SectionKey(entry)))
           ELSE LET table == parse_scan_header_table(TableLines(entries, i))
                IN  IF table.ok
                    THEN Ok(Put(header_dict, SectionKey(entry), TableVal(table.value)))
                    ELSE Fail(Raise(table.err.type, table.err.where, SectionKey(entry)))
      ELSE IF StartsWith(entry, <<COLON>>)
      THEN IF i + 1 > Len(entries)
           THEN \* header_entries[i+1] past the last entry
                Fail(Raise("IndexError", "_parse_sxm_header", SectionKey(entry)))
           ELSE Ok(Put(header_dict, SectionKey(entry),
                       StrVal(StripSet(entries[i + 1], UnicodeWhitespace))))
      ELSE Ok(header_dict)

\* Lines 276-277, for one key.
SplitEntry(header_dict, key) ==
  IF key \notin DOMAIN header_dict
  THEN Fail(Raise("KeyError", "_parse_sxm_header", key))
  ELSE Ok(Put(header_dict, key, ListVal(SplitWhitespace(header_dict[key].v))))

\* Lines 279-283, for one key.
FloatEntry(header_dict, key) ==
  IF key \notin DOMAIN header_dict
  THEN Fail(Raise("KeyError", "_parse_sxm_header", key))
  ELSE LET x == header_dict[key]
       IN  IF x.kind = "list"
           THEN IF \A k \in 1..Len(x.v) : IsFloatText(x.v[k])
                THEN Ok(Put(header_dict, key,
                            FloatsVal([k \in 1..Len(x.v) |-> FloatValue(x.v[k])])))
                ELSE Fail(Raise("ValueError", "_parse_sxm_header", key))
           ELSE IF x.kind = "str" /\ IsFloatText(x.v)
                THEN Ok(Put(header_dict, key, FloatVal(FloatValue(x.v))))
                ELSE Fail(Raise(IF x.kind = "str" THEN "ValueError" ELSE "TypeError",
                                "_parse_sxm_header", key))

\* Lines 284-285, for one key.
IntEntry(header_dict, key) ==
  LET x == header_dict[key]
  IN  IF \A k \in 1..Len(x.v) : IsIntText(x.v[k])
      THEN Ok(Put(header_dict, key, IntsVal([k \in 1..Len(x.v) |-> IntValue(x.v[k])])))
      ELSE Fail(Raise("ValueError", "_parse_sxm_header", key))

\* The three coercion loops in their order, as one list of steps.
CoercionSteps ==
  [k \in 1..Len(entries_to_be_split)   |-> <<"split", entries_to_be_split[k]>>] \o
  [k \in 1..Len(entries_to_be_floated) |-> <<"float", entries_to_be_floated[k]>>] \o
  [k \in 1..Len(entries_to_be_inted)   |-> <<"int",   entries_to_be_inted[k]>>]

\* One step of the loops of lines 276-285 on the dict so far.
CoerceEntry(header_dict, step) ==
  CASE step[1] = "split" -> SplitEntry(header_dict, step[2])
    [] step[1] = "float" -> FloatEntry(header_dict, step[2])
    [] step[1] = "int"   -> IntEntry(header_dict, step[2])

(***************************************************************************)
(* NanonisFile: file type, header boundary, raw header                     *)
(***************************************************************************)
sxm == B(<<"s","x","m">>)

\* _end_tags (line 5)
end_tags ==
  [grid |-> B(<<":","H","E","A","D","E","R","_","E","N","D",":">>),
   scan |-> B(<<"S","C","A","N","I","T","_","E","N","D">>),
   spec |-> B(<<"[","D","A","T","A","]">>)]

\* fname[-3:]
Extension(fname) == Slice(fname, Max(Len(fname) - 2, 1), Len(fname))

\* _determine_filetype: the file type, or "" where it raises.
determine_filetype(fname) ==
  CASE Extension(fname) = B(<<"3","d","s">>) -> "grid"
    [] Extension(fname) = sxm                -> "scan"
    [] Extension(fname) = B(<<"d","a","t">>) -> "spec"
    [] OTHER                                 -> ""

\* _is_valid_file(fname, ext)
is_valid_file(fname, ext) == Extension(fname) = ext

\* f.readline() with the file object at byte position pos (bytes already
\* read): the bytes up to and including the next newline, or up to the end.
Readline(bytes, pos) ==
  LET nls == {i \in (pos + 1)..Len(bytes) : bytes[i] = NL}
      to  == IF nls = {} THEN Len(bytes)
             ELSE CHOOSE i \in nls : \A j \in nls : i <= j
  IN  Slice(bytes, pos + 1, to)

\* line.strip() of line 111, on bytes.
StrippedLine(line) == StripSet(line, BytesWhitespace)

\* tag in line.strip().decode()
HasTag(line, tag) == Contains(StrippedLine(line), tag)

\* f.read(byte_offset) from the start of the file
ReadPrefix(bytes, byte_offset) == Slice(bytes, 1, Min(byte_offset, Len(bytes)))

(***************************************************************************)
(* Scan._load_data                                                         *)
(***************************************************************************)
Name == B(<<"N","a","m","e">>)

\* ndir (line 189)
ndir == 2

\* The item size of data_format '>f4' (line 196).
ItemSize == 4

\* One '>f4' item: its four bytes, most significant first, as the 32-bit
\* pattern of the float.
BigEndian(b) == ((b[1] * 256 + b[2]) * 256 + b[3]) * 256 + b[4]

\* np.fromfile(f, dtype='>f4') after f.seek(offset): the whole items between
\* the offset and the end of the file; bytes short of an item are left.
FromFile(bytes, offset) ==
  LET nbytes == Max(Len(bytes) - offset, 0)
      count  == nbytes \div ItemSize
  IN  [k \in 1..count |->
         BigEndian(SubSeq(bytes, offset + ItemSize * (k - 1) + 1,
                                 offset + ItemSize * k))]

\* The sizes of shape, with one -1 among them replaced by what the size of
\* the array leaves for it; << >> where reshape raises ValueError.
ReshapeDims(size, shape) ==
  LET unknown == {k \in 1..Len(shape) : shape[k] = -1}
      known   == [k \in 1..Len(shape) |-> IF shape[k] = -1 THEN 1 ELSE shape[k]]
      prod    == known[1] * known[2] * known[3] * known[4]
  IN  IF \E k \in 1..Len(shape) : shape[k] < -1 THEN << >>
      ELSE IF Cardinality(unknown) > 1 THEN << >>
      ELSE IF unknown = {}
           THEN IF prod = size THEN shape ELSE << >>
           ELSE IF prod > 0 /\ size % prod = 0
                THEN [k \in 1..Len(shape) |->
                        IF shape[k] = -1 THEN size \div prod ELSE shape[k]]
                ELSE << >>

\* An array: its shape (rows, columns) and its items in C order.
Array(shape, data) == [shape |-> shape, data |-> data]

\* The plane were the directions the outermost axis of the payload.
PlaneDirectionOutermost(scandata, dims, i, d) ==
  [shape |-> <<dims[3], dims[4]>>,
   data  |-> [k \in 1..(dims[3] * dims[4]) |->
                scandata[(d * dims[1] + i) * (dims[3] * dims[4]) + k]]]

\* scandata_shaped[i, d, :, :] for 0-based i and d, dims the reshaped sizes.
Plane(scandata, dims, i, d) ==
  LET n == dims[3] * dims[4]
  IN  Array(<<dims[3], dims[4]>>,
            [k \in 1..n |-> scandata[(i * dims[2] + d) * n + k]])

RECURSIVE ChannelDict(_, _, _, _, _)
\* The loop of lines 205-208 from channel i (1-based) on.
ChannelDict(channs, scandata, dims, i, data_dict) ==
  IF i > Len(channs) THEN data_dict
  ELSE ChannelDict(channs, scandata, dims, i + 1,
         Put(data_dict, channs[i],
             [forward  |-> Plane(scandata, dims, i - 1, 0),
              backward |-> Plane(scandata, dims, i - 1, 1)]))

\* Lines 183-186: what _load_data reads in the header before it opens the
\* file: the channel names and (nx, ny), or the error.
LoadPlan(header) ==
  IF data_info \notin DOMAIN header
  THEN Fail(Raise("KeyError", "_load_data", data_info))
  ELSE IF header[data_info].kind # "table"
  THEN Fail(Raise("TypeError", "_load_data", data_info))
  ELSE IF Name \notin DOMAIN header[data_info].v
  THEN Fail(Raise("KeyError", "_load_data", Name))
  ELSE IF Len(header[scan_pixels].v) # 2
  THEN Fail(Raise("ValueError", "_load_data", scan_pixels))
  ELSE Ok([channs |-> header[data_info].v[Name],
           nx     |-> header[scan_pixels].v[1],
           ny     |-> header[scan_pixels].v[2]])

\* scandata.reshape(nchanns, ndir, nx, ny)
ReshapeShape(plan) == <<Len(plan.channs), ndir, plan.nx, plan.ny>>

\* Lines 202-210: the signals, or the error of reshape.
Signals(plan, scandata) ==
  LET dims == ReshapeDims(Len(scandata), ReshapeShape(plan))
  IN  IF dims = << >>
      THEN Fail(Raise("ValueError", "_load_data", << >>))
      ELSE Ok(ChannelDict(plan.channs, scandata, dims, 1, << >>))

(***************************************************************************)
(* print_to_asc and the writer's arrays                                    *)
(***************************************************************************)
nanonis_version == B(<<"n","a","n","o","n","i","s","_","v","e","r","s","i","o","n">>)
rec_date   == B(<<"r","e","c","_","d","a","t","e">>)
rec_time   == B(<<"r","e","c","_","t","i","m","e">>)
rec_temp   == B(<<"r","e","c","_","t","e","m","p">>)
scan_file  == B(<<"s","c","a","n","_","f","i","l","e">>)
scan_angle == B(<<"s","c","a","n","_","a","n","g","l","e">>)
scan_dir   == B(<<"s","c","a","n","_","d","i","r">>)

Channel     == B(<<"C","h","a","n","n","e","l">>)
Unit        == B(<<"U","n","i","t">>)
Direction   == B(<<"D","i","r","e","c","t","i","o","n">>)
Calibration == B(<<"C","a","l","i","b","r","a","t","i","o","n">>)
Offset      == B(<<"O","f","f","s","e","t">>)

\* The header reads of lines 355-371 in their order: <<key, 0>> for the value
\* itself, <<key, n>> for its n-th component (header[key][n-1]).
TemplateFields ==
  << <<nanonis_version, 0>>, <<rec_date, 0>>, <<rec_time, 0>>, <<rec_temp, 0>>,
     <<acq_time, 0>>, <<scan_pixels, 1>>, <<scan_pixels, 2>>, <<scan_file, 0>>,
     <<scan_time, 1>>, <<scan_time, 2>>, <<scan_range, 1>>, <<scan_range, 2>>,
     <<scan_offset, 1>>, <<scan_offset, 2>>, <<scan_angle, 0>>, <<scan_dir, 0>>,
     <<bias, 0>> >>

\* The columns read at lines 372-377 in their order.
TemplateColumns == <<Channel, Name, Unit, Direction, Calibration, Offset>>

\* The error of reading one field, or NoError.
FieldError(header, field) ==
  IF field[1] \notin DOMAIN header
  THEN Raise("KeyError", "print_to_asc", field[1])
  ELSE IF field[2] > 0 /\ header[field[1]].kind \in {"floats", "ints"}
                       /\ field[2] > Len(header[field[1]].v)
  THEN Raise("IndexError", "print_to_asc", field[1])
  ELSE NoError

FieldValue(header, field) ==
  IF field[2] = 0 THEN header[field[1]].v
  ELSE IF header[field[1]].kind \in {"floats", "ints"}
  THEN header[field[1]].v[field[2]]
  ELSE \* a component of a string is its character
       <<header[field[1]].v[field[2]]>>

\* The error of reading one column of data_info at index (0-based), or NoError.
ColumnError(header, column, index) ==
  IF data_info \notin DOMAIN header
  THEN Raise("KeyError", "print_to_asc", data_info)
  ELSE IF column \notin DOMAIN header[data_info].v
  THEN Raise("KeyError", "print_to_asc", column)
  ELSE IF index + 1 > Len(header[data_info].v[column])
  THEN Raise("IndexError", "print_to_asc", column)
  ELSE NoError

\* print_to_asc(index, original_path, header): the values the template is
\* filled with, or the error of the first read that fails.
print_to_asc(index, header) ==
  LET fieldErrs == {k \in 1..Len(TemplateFields) :
                      FieldError(header, TemplateFields[k]) # NoError}
      colErrs   == {k \in 1..Len(TemplateColumns) :
                      ColumnError(header, TemplateColumns[k], index) # NoError}
      firstOf(S) == CHOOSE k \in S : \A j \in S : k <= j
  IN  IF fieldErrs # {}
      THEN Fail(FieldError(header, TemplateFields[firstOf(fieldErrs)]))
      ELSE IF colErrs # {}
      THEN Fail(ColumnError(header, TemplateColumns[firstOf(colErrs)], index))
      ELSE Ok([fields |-> [k \in 1..Len(TemplateFields) |->
                             FieldValue(header, TemplateFields[k])],
               row    |-> [k \in 1..Len(TemplateColumns) |->
                             header[data_info].v[TemplateColumns[k]][index + 1]]])

\* a.reshape((rows, columns)) of an array of that many items
Reshape2(a, shape) == Array(shape, a.data)

\* np.flipud(a): the rows in reverse order
FlipUD(a) ==
  LET rows == a.shape[1]
      cols == a.shape[2]
  IN  Array(a.shape,
            [k \in 1..(rows * cols) |->
               a.data[(rows - 1 - ((k - 1) \div cols)) * cols + ((k - 1) % cols) + 1]])

\* Lines 402 and 411
data_formatted(a) == FlipUD(Reshape2(a, <<a.shape[2], a.shape[1]>>))

\* path + '[%s_fwd].asc' % channel, and the same with bwd
Dest(fname, channel, dir) ==
  fname \o B(<<"[">>) \o channel \o B(<<"_">>) \o dir \o
  B(<<"]", ".", "a", "s", "c">>)

fwd == B(<<"f","w","d">>)
bwd == B(<<"b","w","d">>)

\* re.search('.*.sxm', path): any character, then sxm, anywhere in the path
MatchesSxm(fname) ==
  \E i \in 2..(Len(fname) - 2) : fname[i - 1] # NL /\ SubSeq(fname, i, i + 2) = sxm

(***************************************************************************)
(* The files the model is run on                                           *)
(***************************************************************************)
MaxChunks     == 4   \* chunks of a free-form byte stream
MaxTableLines == 3   \* lines under :DATA_INFO: in a free-form table
MaxChannels   == 2   \* rows of a well-formed channel table
MaxPixels     == 2   \* largest pixel count of either axis
MaxSlack      == 4   \* payload bytes missing or in surplus

Line(chars) == B(chars) \o <<NL>>

\* A scalar section: its marker line and its value line.
Section(name, value) == <<COLON>> \o B(name) \o <<COLON, NL>> \o value \o <<NL>>

RECURSIVE Concat(_)
Concat(seqs) == IF seqs = << >> THEN << >> ELSE Head(seqs) \o Concat(Tail(seqs))

\* All sequences over S of length at most n.
SeqsUpTo(S, n) == UNION {[1..k -> S] : k \in 0..n}

\* Free-form byte streams: a few chunks, among them the scan end tag, a byte
\* that is no ASCII character, and newlines.
Chunks == {<<NL>>, B(<<" ">>), B(<<"x">>), end_tags.scan, <<176>>}

FreeFormFiles == {Concat(cs) : cs \in SeqsUpTo(Chunks, MaxChunks)}

\* The scalar sections of a scan file ahead of its tables, in the order the
\* instrument writes them; scan_pixels is the 6th.
ScalarNames ==
  << <<"N","A","N","O","N","I","S","_","V","E","R","S","I","O","N">>,
     <<"R","E","C","_","D","A","T","E">>,
     <<"R","E","C","_","T","I","M","E">>,
     <<"R","E","C","_","T","E","M","P">>,
     <<"A","C","Q","_","T","I","M","E">>,
     <<"S","C","A","N","_","P","I","X","E","L","S">>,
     <<"S","C","A","N","_","F","I","L","E">>,
     <<"S","C","A","N","_","T","I","M","E">>,
     <<"S","C","A","N","_","R","A","N","G","E">>,
     <<"S","C","A","N","_","O","F","F","S","E","T">>,
     <<"S","C","A","N","_","A","N","G","L","E">>,
     <<"S","C","A","N","_","D","I","R">>,
     <<"B","I","A","S">> >>

ScalarValues(pixels) ==
  << B(<<"2">>), B(<<" ","0","1",".","0","2",".","2","0","1","6">>),
     B(<<"1","0",":","3","0",":","0","0">>), B(<<" "," ","2","9","0",".","0">>),
     B(<<" "," ","1","2",".","5">>), pixels, B(<<"a",".","s","x","m">>),
     B(<<" ","1",".","0","E","-","1"," "," ","1",".","0","E","-","1">>),
     B(<<" ","5",".","0","E","-","9"," "," ","5",".","0","E","-","9">>),
     B(<<" ","0",".","0","E","+","0"," "," ","-","1",".","5","E","-","9">>),
     B(<<" ","0",".","0","E","+","0">>), B(<<"d","o","w","n">>),
     B(<<" ","-","5",".","0","E","-","1">>) >>

DataInfoSection == Len(ScalarNames) + 1

\* The sections but the one numbered omit (0 omits none).
Scalars(pixels, omit) ==
  Concat([k \in 1..Len(ScalarNames) |->
            IF k = omit THEN << >>
            ELSE Section(ScalarNames[k], ScalarValues(pixels)[k])])

ZControllerTable ==
  Line(<<":","Z","-","C","O","N","T","R","O","L","L","E","R",":">>) \o
  Line(<<"\t","N","a","m","e","\t","o","n">>) \o
  Line(<<"\t","l","o","g","\t","1">>)

CommentSection == Section(<<"C","O","M","M","E","N","T">>, B(<<"n","o","n","e">>))

\* The blank line and the end tag line that close the header.
Trailer == <<NL>> \o Line(<<":","S","C","A","N","I","T","_","E","N","D",":">>)

\* The four bytes between the end tag line and the samples.
StartCode == <<NL, NL, 26, 4>>

ColumnRow == <<TAB>> \o Channel \o <<TAB>> \o Name \o <<TAB>> \o Unit \o <<TAB>> \o
             Direction \o <<TAB>> \o Calibration \o <<TAB>> \o Offset

ChannelNames == {B(<<"Z">>), B(<<"I">>)}

\* The table row of a channel; its number and unit go with its name.
ChannelRow(name) ==
  IF name = B(<<"Z">>)
  THEN B(<<"\t","1","4","\t","Z","\t","m","\t","b","o","t","h","\t","1","\t","0">>)
  ELSE B(<<"\t","0","\t">>) \o name \o
       B(<<"\t","A","\t","b","o","t","h","\t","2","\t","0">>)

\* A row that lacks its last four cells, a line that is no row, a blank line.
ShortRow  == B(<<"\t","3","\t","V">>)
PlainLine == B(<<"x">>)
BlankLine == << >>

TableLineChoices == {ColumnRow, ChannelRow(B(<<"Z">>)), ShortRow, PlainLine, BlankLine}

\* The bytes of sample k (from 0): an IEEE pattern 0x3F80..00kk read big-endian.
SampleBytes(k) == <<63, 128, k \div 256, (k % 256) + 1>>

\* A payload of nbytes bytes: the samples 0, 1, ... , the last one cut short
\* where nbytes is no multiple of four.
Payload(nbytes) ==
  IF nbytes <= 0 THEN << >>
  ELSE SubSeq(Concat([k \in 1..((nbytes + 3) \div 4) |-> SampleBytes(k - 1)]), 1, nbytes)

\* A scan file: scalar sections, the Z-CONTROLLER table, the DATA_INFO table
\* either last or followed by a further section, the trailer, the start code
\* and the payload.
ScanFile(pixels, omit, tableLines, tableLast, nbytes) ==
  Scalars(pixels, omit) \o ZControllerTable \o
  (IF tableLast THEN CommentSection ELSE << >>) \o
  (IF omit = DataInfoSection THEN << >>
   ELSE Line(<<":","D","A","T","A","_","I","N","F","O",":">>) \o
        Concat([k \in 1..Len(tableLines) |-> tableLines[k] \o <<NL>>])) \o
  (IF tableLast THEN << >> ELSE CommentSection) \o
  Trailer \o StartCode \o Payload(nbytes)

PixelsText(nx, ny) ==
  B(<<" "," ">>) \o <<48 + nx>> \o B(<<" "," "," ">>) \o <<48 + ny>>

\* Bytes a complete payload has.
FullSize(nchanns, nx, ny) == ItemSize * nchanns * ndir * nx * ny

\* Free-form tables under a well-formed header; the payload is complete for
\* one channel per line after the first.
TableFiles ==
  {ScanFile(PixelsText(2, 1), 0, t, last, FullSize(Max(Len(t) - 1, 0), 2, 1)) :
     t \in SeqsUpTo(TableLineChoices, MaxTableLines), last \in BOOLEAN}

\* Well-formed tables of the channels c, every pixel shape, the payload with
\* the bytes of slacks missing (below 0) or in surplus.
ChannelLists == SeqsUpTo(ChannelNames, MaxChannels) \ {<< >>}

PayloadFiles(c, slacks) ==
  {ScanFile(PixelsText(p[1], p[2]), 0,
            <<ColumnRow>> \o [k \in 1..Len(c) |-> ChannelRow(c[k])], TRUE,
            FullSize(Len(c), p[1], p[2]) + slack) :
     p \in (1..MaxPixels) \X (1..MaxPixels), slack \in slacks}

\* Complete payloads for every list of channels; short and long ones for the
\* lists of one channel.
BodyFiles ==
  UNION {PayloadFiles(c, IF Len(c) = 1 THEN (0 - MaxSlack)..MaxSlack ELSE {0}) :
           c \in ChannelLists}

\* One section left out, or a value that is no number.
BadPixels == {B(<<"x"," ","2">>), B(<<"2">>), B(<<"2",".","5"," ","2">>)}

SectionFiles ==
  {ScanFile(PixelsText(2, 1), omit, <<ColumnRow, ChannelRow(B(<<"Z">>))>>, TRUE,
            FullSize(1, 2, 1)) : omit \in 0..DataInfoSection}
  \cup
  {ScanFile(px, 0, <<ColumnRow, ChannelRow(B(<<"Z">>))>>, TRUE, FullSize(1, 2, 1)) :
     px \in BadPixels}

ScanPath == B(<<"a",".","s","x","m">>)

\* Paths that are no scan file: one process skips, one Scan refuses.
OtherPaths == {B(<<"a",".","d","a","t">>), B(<<"a",".","s","x","m",".","b","a","k">>)}

Inputs ==
  {<<ScanPath, f>> : f \in FreeFormFiles \cup TableFiles \cup BodyFiles \cup SectionFiles}
  \cup {<<q, << >> >> : q \in OtherPaths}

(***************************************************************************)
(* The program: process(path) and, inside it, Scan(path)                   *)
(***************************************************************************)
VARIABLES
  fname,        \* the path given to process
  file,         \* the bytes of the file at that path
  pc,           \* where the program is
  filetype,     \* self.filetype
  handles,      \* the file objects that are open, by the function that opened them
  pos,          \* start_byte: the position of its file object (f.tell())
  line,         \* start_byte: the line last read
  byte_offset,  \* start_byte's byte_offset, then self.byte_offset
  header_raw,   \* self.header_raw
  header_entries, \* _parse_sxm_header: the lines it scans
  header_dict,  \* _parse_sxm_header: the dict it builds
  i,            \* _parse_sxm_header: the entry, then the coercion, it is at
  header,       \* self.header
  plan,         \* _load_data: channs, nx, ny
  scandata,     \* _load_data: the array read from the file
  signals,      \* self.signals
  err,          \* the exception that ended the program, or NoError
  order,        \* process: the order in which the dict signals iterates
  index,        \* process: i of the loop of line 388
  outputs       \* the .asc files written, by path

parsing == <<header_entries, header_dict, i>>

vars == <<fname, file, pc, filetype, handles, pos, line, byte_offset, header_raw,
          parsing, header, plan, scandata, signals, err, order, index, outputs>>

\* process(path) is about to run on one of the inputs.
InitOn(inputs) ==
  /\ \E input \in inputs : fname = input[1] /\ file = input[2]
  /\ pc = "process"
  /\ filetype = ""
  /\ handles = {}
  /\ pos = 0
  /\ line = << >>
  /\ byte_offset = -1
  /\ header_raw = << >>
  /\ header_entries = << >>
  /\ header_dict = << >>
  /\ i = 0
  /\ header = << >>
  /\ plan = << >>
  /\ scandata = << >>
  /\ signals = << >>
  /\ err = NoError
  /\ order = << >>
  /\ index = 0
  /\ outputs = << >>

Init == InitOn(Inputs)

\* An exception nobody catches: it ends the program.
Throw(error) == pc' = "failed" /\ err' = error

\* Lines 383-386
Process ==
  /\ pc = "process"
  /\ pc' = IF MatchesSxm(fname) THEN "Scan" ELSE "done"
  /\ UNCHANGED <<parsing, fname, file, filetype, handles, pos, line, byte_offset, header_raw,
                 header, plan, scandata, signals, err, order, index, outputs>>

\* Lines 164-165 and 37-39
ScanInit ==
  /\ pc = "Scan"
  /\ IF is_valid_file(fname, sxm)
     THEN /\ filetype' = determine_filetype(fname)
          /\ pc' = "start_byte"
          /\ err' = err
     ELSE /\ Throw(Raise("UnhandledFileError", "_is_valid_file", fname))
          /\ filetype' = filetype
  /\ UNCHANGED <<parsing, fname, file, handles, pos, line, byte_offset, header_raw,
                 header, plan, scandata, signals, order, index, outputs>>

\* Lines 106-109
StartByteOpen ==
  /\ pc = "start_byte"
  /\ handles' = handles \cup {"start_byte"}
  /\ byte_offset' = -1
  /\ line' = Readline(file, 0)
  /\ pos' = Len(line')
  /\ pc' = "start_byte_loop"
  /\ UNCHANGED <<parsing, fname, file, filetype, header_raw, header, plan, scandata,
                 signals, err, order, index, outputs>>

\* Lines 110-115: one test of the while condition and, where it holds, one
\* pass of the body.  An exception leaves the with block, which closes f.
StartByteLoop ==
  /\ pc = "start_byte_loop"
  /\ IF line = << >>
     THEN /\ pc' = "start_byte_check"
          /\ UNCHANGED <<handles, pos, line, byte_offset, err>>
     ELSE IF ~Decodable(StrippedLine(line))
     THEN /\ Throw(Raise("UnicodeDecodeError", "start_byte", line))
          /\ handles' = handles \ {"start_byte"}
          /\ UNCHANGED <<pos, line, byte_offset>>
     ELSE IF HasTag(line, end_tags[filetype])
     THEN /\ byte_offset' = pos
          /\ pc' = "start_byte_check"
          /\ UNCHANGED <<handles, pos, line, err>>
     ELSE /\ line' = Readline(file, pos)
          /\ pos' = pos + Len(line')
          /\ UNCHANGED <<pc, handles, byte_offset, err>>
  /\ UNCHANGED <<parsing, fname, file, filetype, header_raw, header, plan, scandata,
                 signals, order, index, outputs>>

\* Lines 117-122 and 40
StartByteCheck ==
  /\ pc = "start_byte_check"
  /\ handles' = handles \ {"start_byte"}
  /\ IF byte_offset = -1
     THEN Throw(Raise("FileHeaderNotFoundError", "start_byte", end_tags[filetype]))
     ELSE pc' = "read_raw_header" /\ err' = err
  /\ UNCHANGED <<parsing, fname, file, filetype, pos, line, byte_offset, header_raw,
                 header, plan, scandata, signals, order, index, outputs>>

\* Line 87
ReadRawHeaderOpen ==
  /\ pc = "read_raw_header"
  /\ handles' = handles \cup {"read_raw_header"}
  /\ pc' = "read_raw_header_read"
  /\ UNCHANGED <<parsing, fname, file, filetype, pos, line, byte_offset, header_raw,
                 header, plan, scandata, signals, err, order, index, outputs>>

\* Lines 88 and 41
ReadRawHeaderRead ==
  /\ pc = "read_raw_header_read"
  /\ handles' = handles \ {"read_raw_header"}
  /\ IF Decodable(ReadPrefix(file, byte_offset))
     THEN /\ header_raw' = ReadPrefix(file, byte_offset)
          /\ pc' = "parse"
          /\ err' = err
     ELSE /\ Throw(Raise("UnicodeDecodeError", "read_raw_header", << >>))
          /\ header_raw' = header_raw
  /\ UNCHANGED <<parsing, fname, file, filetype, pos, line, byte_offset,
                 header, plan, scandata, signals, order, index, outputs>>

\* Lines 246-261: the lines of the header but the last three, an empty dict.
ParseSplit ==
  /\ pc = "parse"
  /\ header_entries' = HeaderEntries(header_raw)
  /\ header_dict' = << >>
  /\ i' = 1
  /\ pc' = "parse_entries"
  /\ UNCHANGED <<fname, file, filetype, handles, pos, line, byte_offset, header_raw,
                 header, plan, scandata, signals, err, order, index, outputs>>

\* Lines 263-274: one pass of the loop over the entries, or its end.
ParseEntry ==
  /\ pc = "parse_entries"
  /\ IF i > Len(header_entries)
     THEN /\ pc' = "coerce"
          /\ i' = 1
          /\ UNCHANGED <<header_dict, err>>
     ELSE LET r == ScanEntry(header_entries, i, header_dict)
          IN  IF r.ok
              THEN header_dict' = r.value /\ i' = i + 1 /\ UNCHANGED <<pc, err>>
              ELSE Throw(r.err) /\ UNCHANGED <<header_dict, i>>
  /\ UNCHANGED <<fname, file, filetype, handles, pos, line, byte_offset, header_raw,
                 header_entries, header, plan, scandata, signals, order, index,
                 outputs>>

\* Lines 276-287 and 166: one pass of the coercion loops, or the return.
CoerceStep ==
  /\ pc = "coerce"
  /\ IF i > Len(CoercionSteps)
     THEN /\ header' = header_dict
          /\ pc' = "adjust"
          /\ UNCHANGED <<header_dict, i, err>>
     ELSE LET r == CoerceEntry(header_dict, CoercionSteps[i])
          IN  IF r.ok
              THEN header_dict' = r.value /\ i' = i + 1 /\ UNCHANGED <<pc, err, header>>
              ELSE Throw(r.err) /\ UNCHANGED <<header_dict, i, header>>
  /\ UNCHANGED <<fname, file, filetype, handles, pos, line, byte_offset, header_raw,
                 header_entries, plan, scandata, signals, order, index, outputs>>

\* Line 169
AdjustOffset ==
  /\ pc = "adjust"
  /\ byte_offset' = byte_offset + 4
  /\ pc' = "load_data"
  /\ UNCHANGED <<parsing, fname, file, filetype, handles, pos, line, header_raw,
                 header, plan, scandata, signals, err, order, index, outputs>>

\* Lines 183-191
LoadDataPlan ==
  /\ pc = "load_data"
  /\ LET p == LoadPlan(header)
     IN  IF p.ok
         THEN plan' = p.value /\ pc' = "load_open" /\ err' = err
         ELSE Throw(p.err) /\ plan' = plan
  /\ UNCHANGED <<parsing, fname, file, filetype, handles, pos, line, byte_offset, header_raw,
                 header, scandata, signals, order, index, outputs>>

\* Line 194
LoadDataOpen ==
  /\ pc = "load_open"
  /\ handles' = handles \cup {"_load_data"}
  /\ pc' = "load_read"
  /\ UNCHANGED <<parsing, fname, file, filetype, pos, line, byte_offset, header_raw,
                 header, plan, scandata, signals, err, order, index, outputs>>

\* Lines 195-197: the seek and the read, or an input/output error of either,
\* which leaves _load_data at once.
LoadDataRead ==
  /\ pc = "load_read"
  /\ \/ /\ scandata' = FromFile(file, byte_offset)
        /\ pc' = "load_close"
        /\ err' = err
     \/ /\ Throw(Raise("IOError", "_load_data", << >>))
        /\ scandata' = scandata
  /\ UNCHANGED <<parsing, fname, file, filetype, handles, pos, line, byte_offset, header_raw,
                 header, plan, signals, order, index, outputs>>

\* Line 198
LoadDataClose ==
  /\ pc = "load_close"
  /\ handles' = handles \ {"_load_data"}
  /\ pc' = "reshape"
  /\ UNCHANGED <<parsing, fname, file, filetype, pos, line, byte_offset, header_raw,
                 header, plan, scandata, signals, err, order, index, outputs>>

\* Lines 202-210 and 172
LoadDataReshape ==
  /\ pc = "reshape"
  /\ LET s == Signals(plan, scandata)
     IN  IF s.ok
         THEN signals' = s.value /\ pc' = "enumerate" /\ err' = err
         ELSE Throw(s.err) /\ signals' = signals
  /\ UNCHANGED <<parsing, fname, file, filetype, handles, pos, line, byte_offset, header_raw,
                 header, plan, scandata, order, index, outputs>>

\* The orders of the keys of a dict.
Orders(d) ==
  {o \in [1..Cardinality(DOMAIN d) -> DOMAIN d] :
     \A a, b \in 1..Cardinality(DOMAIN d) : a # b => o[a] # o[b]}

\* Line 388: the dict signals starts to iterate, in an order of its own.
ProcessEnumerate ==
  /\ pc = "enumerate"
  /\ order' \in Orders(signals)
  /\ index' = 0
  /\ pc' = "loop"
  /\ UNCHANGED <<parsing, fname, file, filetype, handles, pos, line, byte_offset, header_raw,
                 header, plan, scandata, signals, err, outputs>>

\* What lines 397-403 and 406-412 leave in one file.
AscFile(printable, channel, direction, array) ==
  [printable |-> printable, channel |-> channel, direction |-> direction,
   data |-> data_formatted(array)]

\* Lines 388-412: one pass of the loop, or its end.
ProcessChannel ==
  /\ pc = "loop"
  /\ IF index >= Len(order)
     THEN pc' = "done" /\ UNCHANGED <<err, index, outputs>>
     ELSE LET printable == print_to_asc(index, header)
              channel   == order[index + 1]
          IN  IF printable.ok
              THEN /\ outputs' =
                        Put(Put(outputs, Dest(fname, channel, fwd),
                                AscFile(printable.value, channel, "forward",
                                        signals[channel].forward)),
                            Dest(fname, channel, bwd),
                            AscFile(printable.value, channel, "backward",
                                    signals[channel].backward))
                   /\ index' = index + 1
                   /\ UNCHANGED <<pc, err>>
              ELSE Throw(printable.err) /\ UNCHANGED <<index, outputs>>
  /\ UNCHANGED <<parsing, fname, file, filetype, handles, pos, line, byte_offset, header_raw,
                 header, plan, scandata, signals, order>>

Next ==
  \/ Process
  \/ ScanInit
  \/ StartByteOpen
  \/ StartByteLoop
  \/ StartByteCheck
  \/ ReadRawHeaderOpen
  \/ ReadRawHeaderRead
  \/ ParseSplit
  \/ ParseEntry
  \/ CoerceStep
  \/ AdjustOffset
  \/ LoadDataPlan
  \/ LoadDataOpen
  \/ LoadDataRead
  \/ LoadDataClose
  \/ LoadDataReshape
  \/ ProcessEnumerate
  \/ ProcessChannel

Spec == Init /\ [][Next]_vars

\* The interpreter runs the program on: the statement the program is at is
\* executed.  Stated for the statements of Scan.__init__ up to the return of
\* start_byte.
StartByteSteps == Process \/ ScanInit \/ StartByteOpen \/ StartByteLoop \/ StartByteCheck

\* The runs on the byte streams the line scan of start_byte is looked at on:
\* the free-form streams, with and without the tag, and the scan files of
\* SectionFiles, which take the program through every later stage.
LineScanInputs == {<<ScanPath, f>> : f \in FreeFormFiles \cup SectionFiles}

LineScanInit == InitOn(LineScanInputs)

FairSpec == LineScanInit /\ [][Next]_vars /\ WF_vars(StartByteSteps)

(***************************************************************************)
(* What the properties speak of, stated on the bytes of the file            *)
(***************************************************************************)
ScanTag == B(<<"S","C","A","N","I","T","_","E","N","D">>)

\* Where the end tag occurs in the file.
TagStarts == {a \in 1..(Len(file) - 9) : file[a] = 83 /\ SubSeq(file, a, a + 9) = ScanTag}

\* The position after the first line that contains the end tag: the number of
\* bytes up to and including the newline that ends it (or up to the end of the
\* file where no newline follows); 0 where no line contains the tag.
FirstTagEnd ==
  IF TagStarts = {} THEN 0
  ELSE LET a  == CHOOSE x \in TagStarts : \A y \in TagStarts : x <= y
           nl == {k \in a..Len(file) : file[k] = 10}
       IN  IF nl = {} THEN Len(file) ELSE CHOOSE k \in nl : \A j \in nl : k <= j

\* Every byte of the lines up to and including the first tag line (of the
\* whole file where there is none) is an ASCII character.
HeaderIsAscii ==
  \A k \in 1..(IF TagStarts = {} THEN Len(file) ELSE FirstTagEnd) : file[k] < 128

\* Scan(path) got as far as start_byte.
Scanning == filetype = "scan"

\* start_byte or read_raw_header has just ended, in a return or in an error.
BoundaryStageEnded ==
  \/ pc \in {"read_raw_header", "read_raw_header_read", "parse"}
  \/ pc = "failed" /\ err.where \in {"start_byte", "read_raw_header"}

\* The program has ended.
Ended == pc \in {"done", "failed"}

(***************************************************************************)
(* C1. The header boundary                                                 *)
(***************************************************************************)
\* C1: for every byte stream with a line that contains the end tag,
\* start_byte returns the position after the first such line and
\* read_raw_header returns exactly the bytes before that position.
C1_AnyBytes ==
  (Scanning /\ BoundaryStageEnded /\ TagStarts # {}) =>
     /\ pc # "failed"
     /\ byte_offset = FirstTagEnd
     /\ (pc = "parse" => header_raw = SubSeq(file, 1, FirstTagEnd))

\* C1 on the streams whose lines up to and including the first tag line are
\* ASCII text: there start_byte raises nothing and returns the position after
\* the first tag line, and read_raw_header returns the bytes before it.
C1_Boundary ==
  (Scanning /\ BoundaryStageEnded /\ TagStarts # {} /\ HeaderIsAscii) =>
     /\ pc # "failed"
     /\ byte_offset = FirstTagEnd
     /\ (pc = "parse" => header_raw = SubSeq(file, 1, FirstTagEnd))

\* A file with two tag lines, the first not the first line of the file, whose
\* header has been read.
C1_Witness ==
  /\ pc = "parse"
  /\ Cardinality(TagStarts) > 1
  /\ FirstTagEnd < Len(file)
  /\ \E k \in 1..FirstTagEnd : file[k] = 10 /\ k < FirstTagEnd
  /\ header_raw = SubSeq(file, 1, FirstTagEnd)

(***************************************************************************)
(* C2. No end tag                                                          *)
(***************************************************************************)
\* C2, at the end of the run: on a byte stream in which no line contains the
\* end tag the program has ended in FileHeaderNotFoundError.
C2_AnyBytes ==
  (Scanning /\ TagStarts = {} /\ Ended) =>
     (pc = "failed" /\ err.type = "FileHeaderNotFoundError")

\* The error start_byte ends in on a file without a tag line.
NoTagError ==
  IF HeaderIsAscii THEN "FileHeaderNotFoundError" ELSE "UnicodeDecodeError"

\* What of C2 the code does: on every finite byte stream in which no line
\* contains the end tag, the line scan of start_byte terminates in an error
\* of start_byte's: FileHeaderNotFoundError once the stream is exhausted where
\* every line is ASCII text, UnicodeDecodeError at the first line that is
\* not.  It never returns an offset, and neither a header parse nor a payload
\* read happens.
C2_NoTag ==
  /\ (Scanning /\ TagStarts = {})
       ~> (pc = "failed" /\ err.where = "start_byte" /\ err.type = NoTagError)
  /\ []((Scanning /\ TagStarts = {}) =>
          /\ pc \in {"Scan", "start_byte", "start_byte_loop", "start_byte_check", "failed"}
          /\ (pc = "failed" =>
                /\ err.type = "FileHeaderNotFoundError" => pos = Len(file)
                /\ err.where = "start_byte")
          /\ byte_offset = -1
          /\ header_raw = << >> /\ header_entries = << >> /\ header = << >>
          /\ scandata = << >> /\ signals = << >>)

\* A stream of several lines without the tag has been read to its end.
C2_Witness ==
  /\ pc = "failed"
  /\ err.type = "FileHeaderNotFoundError"
  /\ TagStarts = {}
  /\ Cardinality({k \in 1..Len(file) : file[k] = 10}) > 1
  /\ pos = Len(file)

(***************************************************************************)
(* C3, C4, C5. The payload                                                 *)
(***************************************************************************)
\* Scan.__init__ has returned: the signals are built.
SignalsBuilt ==
  \/ pc \in {"enumerate", "loop"}
  \/ pc = "done" /\ Scanning
  \/ pc = "failed" /\ err.where = "print_to_asc"

\* The number of bytes before the payload: the header boundary and 4.
PayloadStart == FirstTagEnd + 4

\* The k-th (from 0) 4-byte big-endian sample of the payload.
SampleAt(k) ==
  ((file[PayloadStart + 4 * k + 1] * 256 + file[PayloadStart + 4 * k + 2]) * 256
     + file[PayloadStart + 4 * k + 3]) * 256 + file[PayloadStart + 4 * k + 4]

\* The Name column of data_info and the two numbers of scan_pixels.
NameColumn == header[data_info].v[Name]
Pixels     == header[scan_pixels].v
GridCells  == Pixels[1] * Pixels[2]

\* The run of samples of channel i (from 1) and direction d (0 forward,
\* 1 backward): rows*cols samples from flat index (2*(i-1)+d)*rows*cols.
Run(c, d) == [k \in 1..GridCells |-> SampleAt((2 * (c - 1) + d) * GridCells + k - 1)]

\* C3 as stated: the grid of every channel index and direction is its run.
C3_EveryIndex ==
  SignalsBuilt =>
    \A c \in 1..Len(NameColumn) :
       /\ signals[NameColumn[c]].forward.data  = Run(c, 0)
       /\ signals[NameColumn[c]].backward.data = Run(c, 1)

\* C3, amended: the payload starts 4 bytes after the header boundary and is a
\* flat big-endian sequence of 4-byte samples; for every channel index i
\* whose name does not occur again at a later index of the Name column, and
\* for direction d, the grid is the contiguous run of rows*cols samples that
\* starts at flat index (2*i + d)*rows*cols (i from 0), read row by row.
C3_Layout ==
  SignalsBuilt =>
    \A c \in 1..Len(NameColumn) :
       (\A later \in (c + 1)..Len(NameColumn) : NameColumn[later] # NameColumn[c]) =>
          /\ signals[NameColumn[c]].forward.data  = Run(c, 0)
          /\ signals[NameColumn[c]].backward.data = Run(c, 1)

\* Two channels of different names and grids of more than one sample: the
\* backward grid of the second channel is the fourth run.
C3_Witness ==
  /\ SignalsBuilt
  /\ Len(NameColumn) = 2
  /\ NameColumn[1] # NameColumn[2]
  /\ GridCells > 1
  /\ signals[NameColumn[2]].backward.data = Run(2, 1)
  /\ Run(2, 1) # Run(1, 1)

\* C4: every grid has scan_pixels[1] rows and scan_pixels[0] columns.
C4_RowsAndColumns ==
  SignalsBuilt =>
    \A n \in DOMAIN signals :
       /\ signals[n].forward.shape  = <<Pixels[2], Pixels[1]>>
       /\ signals[n].backward.shape = <<Pixels[2], Pixels[1]>>

\* C5: a payload whose number of bytes is not 4 * channels * 2 * rows * cols
\* (bytes missing, or bytes in surplus) ends in the shape error: no signals.
C5_PayloadSize ==
  SignalsBuilt => Len(file) - PayloadStart = 4 * Len(NameColumn) * 2 * GridCells

(***************************************************************************)
(* C6, C7. The tables of the header                                        *)
(***************************************************************************)
\* The line after the section of the marker at line m: the next line that
\* begins with ':', or the end of the header lines.
SectionEnd(m) ==
  LET colons == {j \in (m + 1)..Len(header_entries) :
                   header_entries[j] # << >> /\ header_entries[j][1] = 58}
  IN  IF colons = {} THEN Len(header_entries) + 1
      ELSE CHOOSE j \in colons : \A k \in colons : j <= k

\* The tab-prefixed lines of the section of the marker at line m.
TabRows(m) ==
  {j \in (m + 1)..(SectionEnd(m) - 1) :
     header_entries[j] # << >> /\ header_entries[j][1] = 9}

\* They, in their order.
TabRowLines(m) ==
  [k \in 1..Cardinality(TabRows(m)) |->
     header_entries[CHOOSE j \in TabRows(m) :
                      Cardinality({x \in TabRows(m) : x < j}) = k - 1]]

\* The cells of a tab-prefixed line: one after each tab.
Cells(row) == Cardinality({k \in 1..Len(row) : row[k] = 9})

\* A data row of the table has fewer cells than the column-header row.
HasShortRow(m) ==
  \E j \in TabRows(m) : \E h \in TabRows(m) :
     (\A x \in TabRows(m) : h <= x) /\ Cells(header_entries[j]) < Cells(header_entries[h])

\* The loop of _parse_sxm_header is past line m.
ParsedPast(m) ==
  \/ pc = "parse_entries" /\ i > m
  \/ pc \in {"coerce", "adjust", "load_data", "load_open", "load_read", "load_close",
             "reshape", "enumerate", "loop", "done"}
  \/ pc = "failed" /\ err.where \in {"_load_data", "print_to_asc"}

\* C6: a DATA_INFO table with a data row shorter than the column-header row
\* is never returned: the parse does not get past it.
C6_ShortRow ==
  \A m \in 1..Len(header_entries) :
     (header_entries[m] = DATA_INFO /\ HasShortRow(m)) =>
        /\ ~ParsedPast(m)
        /\ data_info \notin DOMAIN header_dict

\* C7: the rows given to the table parser for the marker at line m are
\* exactly the tab-prefixed lines of its section, in their order.
C7_TableRows ==
  \A m \in 1..Len(header_entries) :
     (/\ pc = "parse_entries" /\ i = m
      /\ header_entries[m] \in {DATA_INFO, Z_CONTROLLER}
      /\ \A j \in (m + 1)..(SectionEnd(m) - 1) : header_entries[j] # << >>)
       => TableLines(header_entries, m) = TabRowLines(m)

(***************************************************************************)
(* C8. The stages of Scan.__init__                                         *)
(***************************************************************************)
\* _load_data has begun.
LoadBegan ==
  \/ pc \in {"load_data", "load_open", "load_read", "load_close", "reshape"}
  \/ SignalsBuilt
  \/ pc = "failed" /\ err.where = "_load_data"

\* The file is open for the payload, or has been.
PayloadOpened ==
  \/ pc \in {"load_read", "load_close", "reshape"}
  \/ SignalsBuilt
  \/ pc = "failed" /\ err.where = "_load_data" /\ err.type \in {"IOError", "ValueError"}
                   /\ err.what = << >>

\* C8: _load_data begins only when the parsed header holds scan_pixels,
\* scan_range, scan_offset, scan_time, bias and data_info.
C8_AllKeys ==
  LoadBegan =>
    {scan_pixels, scan_range, scan_offset, scan_time, bias, data_info} \subseteq DOMAIN header

\* What of C8 the code does: the stages run in the order boundary location,
\* raw header read, header parse, +4 adjustment, body decode.  _load_data
\* begins only when the parsed header holds scan_pixels (integers),
\* scan_range, scan_offset, scan_time (floats) and bias (float); if one of
\* these is absent after parsing, the construction ends in an error of the
\* parser before _load_data begins.  data_info is not looked at by the
\* parser: where it is absent _load_data begins and ends at its first
\* statement in KeyError, before the file is opened for the payload.  No
\* signals are produced in either case.
C8_Stages ==
  /\ pc \in {"read_raw_header", "read_raw_header_read"} =>
        byte_offset >= 0 /\ header_raw = << >> /\ header = << >> /\ scandata = << >>
  /\ pc \in {"parse", "parse_entries", "coerce"} =>
        byte_offset = Len(header_raw) /\ header = << >> /\ scandata = << >>
  /\ pc = "adjust" =>
        byte_offset = Len(header_raw) /\ header = header_dict /\ scandata = << >>
  /\ (pc = "failed" /\ err.where = "_parse_sxm_header") =>
        header = << >> /\ scandata = << >> /\ signals = << >> /\ handles = {}
  /\ LoadBegan =>
        /\ byte_offset = Len(header_raw) + 4
        /\ header = header_dict
        /\ {scan_pixels, scan_range, scan_offset, scan_time, bias} \subseteq DOMAIN header
        /\ header[scan_pixels].kind = "ints"
        /\ \A k \in {scan_range, scan_offset, scan_time} : header[k].kind = "floats"
        /\ header[bias].kind = "float"
  /\ PayloadOpened => data_info \in DOMAIN header
  /\ (LoadBegan /\ data_info \notin DOMAIN header) =>
        /\ pc = "load_data" \/ (pc = "failed" /\ err = Raise("KeyError", "_load_data", data_info))
        /\ handles = {} /\ scandata = << >> /\ signals = << >>
  /\ (scandata # << >> \/ signals # << >>) => LoadBegan

\* A header with every scalar key and no data_info: _load_data began and
\* ended in KeyError.
C8_Witness ==
  /\ pc = "failed"
  /\ err = Raise("KeyError", "_load_data", data_info)
  /\ {scan_pixels, scan_range, scan_offset, scan_time, bias} \subseteq DOMAIN header
  /\ byte_offset = FirstTagEnd + 4

(***************************************************************************)
(* C9. File handles                                                        *)
(***************************************************************************)
\* C9: when the construction of Scan has ended, in a return or in an error,
\* no file handle is open.
C9_HandlesClosed ==
  (Scanning /\ (Ended \/ SignalsBuilt)) => handles = {}

(***************************************************************************)
(* C10. The metadata of an output file                                     *)
(***************************************************************************)
\* C10: the data_info row an output file is filled with is the row of the
\* channel whose grid the file holds.
C10_RowOfChannel ==
  \A dest \in DOMAIN outputs : outputs[dest].printable.row[2] = outputs[dest].channel

=============================================================================
